---- MODULE Spec2Model ----
(***************************************************************************)
(* Model of ambr/models/abyss.py: the pydantic models that parse the       *)
(* Spiral Abyss response (AbyssResponse and the entities it owns).         *)
(*                                                                         *)
(* Wire (JSON) values are tagged records [t, v]:                           *)
(*   "int" (v an integer), "str" (v a sequence of one-character strings),  *)
(*   "bool", "null", "list" (v a sequence of values), "obj" (v a sequence  *)
(*   of [k, v] pairs in insertion order, keys distinct).                   *)
(* Two further tags are Python values that only validators produce:        *)
(*   "datetime" (v = [day, sec]) and "instances" (v a sequence of model    *)
(*   instances).                                                           *)
(* A model instance is a function from attribute names to Python values;   *)
(* an Optional attribute holds <<>> for None and <<x>> for a value x.      *)
(* The outcome of a validation is [kind, val, errs, exc]:                  *)
(*   kind = "ok"      val is the validated value,                          *)
(*   kind = "invalid" errs is the list of pydantic line errors             *)
(*                    (a ValidationError),                                 *)
(*   kind = "raised"  exc names an exception that is not a validation      *)
(*                    error (TypeError, ...) and leaves the parse as is.   *)
(***************************************************************************)
EXTENDS Integers, Sequences, FiniteSets, TLC

VARIABLES payload, pc, attrs, errors, result, obj, formatted, accessed, last

vars == <<payload, pc, attrs, errors, result, obj, formatted, accessed, last>>

(***************************************************************************)
(* Bounds of the checked input space.                                      *)
(***************************************************************************)
MaxEntries == 2
MaxChunks == 2
MaxTplLen == 4
MaxValues == 2
MaxDescLen == 4

(***************************************************************************)
(* Wire values.                                                            *)
(***************************************************************************)
JInt(n) == [t |-> "int", v |-> n]
JStr(s) == [t |-> "str", v |-> s]
JBool(b) == [t |-> "bool", v |-> b]
JNull == [t |-> "null", v |-> 0]
JList(xs) == [t |-> "list", v |-> xs]
JObj(ps) == [t |-> "obj", v |-> ps]
P(key, val) == [k |-> key, v |-> val]

PyDatetime(d) == [t |-> "datetime", v |-> d]
PyInstances(xs) == [t |-> "instances", v |-> xs]

Has(ps, key) == \E i \in 1..Len(ps) : ps[i].k = key
Get(ps, key) == ps[CHOOSE i \in 1..Len(ps) : ps[i].k = key].v

(***************************************************************************)
(* Outcomes and line errors.  A location item is a field name or an index. *)
(***************************************************************************)
Name(s) == [n |-> s, i |-> -1]
Idx(j) == [n |-> "#", i |-> j]
Err(ty) == [loc |-> <<>>, type |-> ty]

Ok(x) == [kind |-> "ok", val |-> x, errs |-> <<>>, exc |-> ""]
Invalid(es) == [kind |-> "invalid", val |-> <<>>, errs |-> es, exc |-> ""]
Raised(e) == [kind |-> "raised", val |-> <<>>, errs |-> <<>>, exc |-> e]

\* pydantic's with_outer_location: every line error gets the item in front.
Outer(es, item) == [j \in 1..Len(es) |-> [es[j] EXCEPT !.loc = <<item>> \o @]]

(***************************************************************************)
(* Python strings, as sequences of characters.                             *)
(***************************************************************************)
DigitChars == <<"0", "1", "2", "3", "4", "5", "6", "7", "8", "9">>
IsDigit(c) == \E d \in 1..10 : DigitChars[d] = c
DigitOf(c) == (CHOOSE d \in 1..10 : DigitChars[d] = c) - 1

RECURSIVE NatStr(_)
NatStr(n) == IF n < 10 THEN <<DigitChars[n + 1]>>
             ELSE NatStr(n \div 10) \o <<DigitChars[(n % 10) + 1]>>

\* str(v) of a Python int
IntStr(n) == IF n < 0 THEN <<"-">> \o NatStr(0 - n) ELSE NatStr(n)

RECURSIVE Join(_, _)
\* sep.join(parts)
Join(sep, parts) ==
    IF parts = <<>> THEN <<>>
    ELSE IF Len(parts) = 1 THEN parts[1]
    ELSE parts[1] \o sep \o Join(sep, Tail(parts))

RECURSIVE FindFrom(_, _, _)
\* the first index >= i at which needle occurs in hay, 0 when there is none
FindFrom(needle, hay, i) ==
    IF i + Len(needle) - 1 > Len(hay) THEN 0
    ELSE IF SubSeq(hay, i, i + Len(needle) - 1) = needle THEN i
    ELSE FindFrom(needle, hay, i + 1)

\* needle in hay, for two Python strings
StrContains(needle, hay) == FindFrom(needle, hay, 1) # 0

RECURSIVE DigitsValue(_)
DigitsValue(s) == IF s = <<>> THEN 0
                  ELSE DigitsValue(SubSeq(s, 1, Len(s) - 1)) * 10 + DigitOf(s[Len(s)])

IsDigits(s) == s # <<>> /\ \A i \in 1..Len(s) : IsDigit(s[i])

\* Python truthiness of a wire value
Falsy(v) ==
    CASE v.t = "int" -> v.v = 0
      [] v.t = "bool" -> ~v.v
      [] v.t = "null" -> TRUE
      [] v.t \in {"str", "list", "obj"} -> v.v = <<>>
      [] OTHER -> FALSE

RECURSIVE Repr(_)
RECURSIVE ReprAll(_)
\* repr(v); a non-empty dict is outside the modelled inputs
Repr(v) ==
    CASE v.t = "int" -> IntStr(v.v)
      [] v.t = "bool" -> IF v.v THEN <<"T", "r", "u", "e">> ELSE <<"F", "a", "l", "s", "e">>
      [] v.t = "null" -> <<"N", "o", "n", "e">>
      [] v.t = "str" -> <<"'">> \o v.v \o <<"'">>
      [] v.t = "list" -> <<"[">> \o Join(<<",", " ">>, ReprAll(v.v)) \o <<"]">>
      [] v.t = "obj" /\ v.v = <<>> -> <<"{", "}">>
ReprAll(xs) == [j \in 1..Len(xs) |-> Repr(xs[j])]

\* str(v), as an f-string renders v
PyStr(v) == IF v.t = "str" THEN v.v ELSE Repr(v)

(***************************************************************************)
(* The field validators of the module (mode="before": each sees the raw    *)
(* wire value, ahead of pydantic's own validation of the field's type).    *)
(***************************************************************************)
UrlBase == <<"h", "t", "t", "p", "s", ":", "/", "/", "a", "p", "i", ".", "a", "m", "b", "r", ".", "t", "o", "p", "/", "a", "s", "s", "e", "t", "s", "/", "U", "I">>
MonsterDir == <<"/", "m", "o", "n", "s", "t", "e", "r">>
MonsterIcon == <<"M", "o", "n", "s", "t", "e", "r", "I", "c", "o", "n">>
PngSuffix == <<".", "p", "n", "g">>

\* needle in v, for v a str, a list or an (empty) dict
InValue(needle, v) ==
    CASE v.t = "str" -> StrContains(needle, v.v)
      [] v.t = "list" -> \E j \in 1..Len(v.v) : v.v[j] = JStr(needle)
      [] v.t = "obj" /\ v.v = <<>> -> FALSE

IconUrlStartsWith(v) ==
    IF v.t \in {"int", "bool", "null"} THEN Raised("TypeError")
    ELSE Ok(JStr(UrlBase
                 \o (IF v.t = "str" /\ Len(v.v) >= Len(MonsterIcon)
                        /\ SubSeq(v.v, 1, Len(MonsterIcon)) = MonsterIcon
                     THEN MonsterDir ELSE <<>>)
                 \o <<"/">> \o PyStr(v) \o PngSuffix))

AbyssEnemy_convert_icon_url(v) ==
    IF v.t \in {"int", "bool", "null"} THEN Raised("TypeError")
    ELSE Ok(JStr(UrlBase
                 \o (IF InValue(MonsterIcon, v) THEN MonsterDir ELSE <<>>)
                 \o <<"/">> \o PyStr(v) \o PngSuffix))

\* datetime.datetime.fromtimestamp(n), the local zone taken as UTC
FromTimestamp(n) == [day |-> n \div 86400, sec |-> n % 86400]

Abyss_format_close_time(v) ==
    CASE v.t = "int" -> Ok(PyDatetime(FromTimestamp(v.v)))
      [] v.t = "bool" -> Ok(PyDatetime(FromTimestamp(IF v.v THEN 1 ELSE 0)))
      [] OTHER -> Raised("TypeError")

OpenTimeAlwaysConverts(v) == Abyss_format_close_time(v)

AbyssData_format_open_time(v) ==
    IF Falsy(v) THEN Ok(JNull) ELSE Abyss_format_close_time(v)

RECURSIVE StripFrom(_, _)
\* re.sub of the tag pattern <.*?> by "", scanning from index i
StripFrom(s, i) ==
    IF i > Len(s) THEN <<>>
    ELSE IF s[i] = "<" /\ \E j \in (i + 1)..Len(s) : s[j] = ">"
         THEN StripFrom(s, (CHOOSE j \in (i + 1)..Len(s) :
                               s[j] = ">" /\ \A m \in (i + 1)..(j - 1) : s[m] # ">") + 1)
         ELSE <<s[i]>> \o StripFrom(s, i + 1)

\* utils.remove_html_tags
remove_html_tags(v) ==
    IF v.t = "str" THEN Ok(JStr(StripFrom(v.v, 1))) ELSE Raised("TypeError")

DescriptionKeptAsIs(v) == Ok(v)

Blessing_format_description(v) == remove_html_tags(v)

LeyLineDisorder_format_description(v) == remove_html_tags(v)

(***************************************************************************)
(* The models' fields, in declaration order: the wire name (alias), the    *)
(* attribute, the annotated type, whether the field is required, and its   *)
(* "before" validator.                                                     *)
(***************************************************************************)
F(al, at, ty, rq, bf) == [alias |-> al, attr |-> at, ty |-> ty, req |-> rq, before |-> bf]

BlessingFields ==
    << F("description", "description", "str", TRUE, "Blessing._format_description"),
       F("levelConfigName", "level_config_name", "str", TRUE, ""),
       F("visible", "visible", "bool", TRUE, "") >>

ChallengeTargetFields ==
    << F("type", "type", "str", TRUE, ""),
       F("values", "values", "List[int]", TRUE, "") >>

ChamberSecondWaveRequired ==
    << F("id", "id", "int", TRUE, ""),
       F("challengeTarget", "challenge_target", "ChallengeTarget", TRUE, ""),
       F("monsterLevel", "enemy_level", "int", TRUE, ""),
       F("firstMonsterList", "wave_one_enemies", "List[int]", TRUE, ""),
       F("secondMonsterList", "wave_two_enemies", "Optional[List[int]]", TRUE, "") >>

ChamberFields ==
    << F("id", "id", "int", TRUE, ""),
       F("challengeTarget", "challenge_target", "ChallengeTarget", TRUE, ""),
       F("monsterLevel", "enemy_level", "int", TRUE, ""),
       F("firstMonsterList", "wave_one_enemies", "List[int]", TRUE, ""),
       F("secondMonsterList", "wave_two_enemies", "Optional[List[int]]", FALSE, "") >>

LeyLineDisorderFields ==
    << F("description", "description", "str", TRUE, "LeyLineDisorder._format_description"),
       F("levelConfigName", "level_config_name", "str", TRUE, ""),
       F("visible", "visible", "bool", TRUE, "") >>

FloorChambersOptional ==
    << F("id", "id", "int", TRUE, ""),
       F("chamberList", "chambers", "List[Chamber]", FALSE, ""),
       F("leyLineDisorder", "ley_line_disorders", "List[LeyLineDisorder]", TRUE, ""),
       F("overrideMonsterLevel", "override_enemy_level", "int", TRUE, ""),
       F("teamNum", "team_num", "int", TRUE, "") >>

FloorFields ==
    << F("id", "id", "int", TRUE, ""),
       F("chamberList", "chambers", "List[Chamber]", TRUE, ""),
       F("leyLineDisorder", "ley_line_disorders", "List[LeyLineDisorder]", TRUE, ""),
       F("overrideMonsterLevel", "override_enemy_level", "int", TRUE, ""),
       F("teamNum", "team_num", "int", TRUE, "") >>

AbyssDataFields ==
    << F("openTime", "open_time", "Optional[datetime]", FALSE, "AbyssData._format_open_time"),
       F("floorList", "floors", "List[Floor]", TRUE, "") >>

AbyssFields ==
    << F("id", "id", "int", TRUE, ""),
       F("closeTime", "close_time", "datetime", TRUE, "Abyss._format_close_time"),
       F("blessing", "blessing", "Blessing", TRUE, ""),
       F("entrance", "abyss_corridor", "AbyssData", TRUE, ""),
       F("schedule", "abyssal_moon_spire", "AbyssData", TRUE, "") >>

AbyssEnemyFields ==
    << F("icon", "icon", "str", TRUE, "AbyssEnemy._convert_icon_url"),
       F("id", "id", "int", TRUE, ""),
       F("link", "link", "bool", TRUE, ""),
       F("name", "name", "str", TRUE, "") >>

AbyssResponseFields ==
    << F("monsterList", "enemies", "List[AbyssEnemy]", TRUE, "AbyssResponse._convert_enemies"),
       F("items", "abyss_items", "List[Abyss]", TRUE, "AbyssResponse._convert_abyss_items") >>

ModelNames == {"Blessing", "ChallengeTarget", "Chamber", "LeyLineDisorder", "Floor",
               "AbyssData", "Abyss", "AbyssEnemy", "AbyssResponse"}

Fields(model) ==
    CASE model = "Blessing" -> BlessingFields
      [] model = "ChallengeTarget" -> ChallengeTargetFields
      [] model = "Chamber" -> ChamberFields
      [] model = "LeyLineDisorder" -> LeyLineDisorderFields
      [] model = "Floor" -> FloorFields
      [] model = "AbyssData" -> AbyssDataFields
      [] model = "Abyss" -> AbyssFields
      [] model = "AbyssEnemy" -> AbyssEnemyFields
      [] model = "AbyssResponse" -> AbyssResponseFields

ListTypes == {"List[int]", "List[Chamber]", "List[LeyLineDisorder]", "List[Floor]",
              "List[AbyssEnemy]", "List[Abyss]"}

\* the X of List[X]
ElemType(ty) ==
    CASE ty = "List[int]" -> "int"
      [] ty = "List[Chamber]" -> "Chamber"
      [] ty = "List[LeyLineDisorder]" -> "LeyLineDisorder"
      [] ty = "List[Floor]" -> "Floor"
      [] ty = "List[AbyssEnemy]" -> "AbyssEnemy"
      [] ty = "List[Abyss]" -> "Abyss"

(***************************************************************************)
(* pydantic's validation of a value against an annotated type (lax mode,   *)
(* the default of BaseModel), of a mapping against a model's fields, and   *)
(* the two converters of keyed collections.                                *)
(***************************************************************************)
BoolFalseStrs == {<<"0">>, <<"o", "f", "f">>, <<"f">>, <<"f", "a", "l", "s", "e">>, <<"n">>, <<"n", "o">>}
BoolTrueStrs == {<<"1">>, <<"o", "n">>, <<"t">>, <<"t", "r", "u", "e">>, <<"y">>, <<"y", "e", "s">>}

ValidateInt(v) ==
    CASE v.t = "int" -> Ok(v.v)
      [] v.t = "bool" -> Ok(IF v.v THEN 1 ELSE 0)
      [] v.t = "str" -> IF IsDigits(v.v) THEN Ok(DigitsValue(v.v))
                        ELSE Invalid(<<Err("int_parsing")>>)
      [] OTHER -> Invalid(<<Err("int_type")>>)

ValidateStr(v) ==
    IF v.t = "str" THEN Ok(v.v) ELSE Invalid(<<Err("string_type")>>)

ValidateBool(v) ==
    CASE v.t = "bool" -> Ok(v.v)
      [] v.t = "int" -> IF v.v \in {0, 1} THEN Ok(v.v = 1)
                        ELSE Invalid(<<Err("bool_parsing")>>)
      [] v.t = "str" -> IF v.v \in BoolTrueStrs THEN Ok(TRUE)
                        ELSE IF v.v \in BoolFalseStrs THEN Ok(FALSE)
                        ELSE Invalid(<<Err("bool_parsing")>>)
      [] OTHER -> Invalid(<<Err("bool_type")>>)

RECURSIVE ValidateType(_, _)
RECURSIVE ValidateItems(_, _, _, _, _)
RECURSIVE ValidateField(_, _)
RECURSIVE ValidateFieldsFrom(_, _, _, _, _)
RECURSIVE ValidateModel(_, _)
RECURSIVE Construct(_, _)
RECURSIVE ConvertFrom(_, _, _, _)
RECURSIVE ConvertKeyed(_, _)
RECURSIVE AbyssResponse_convert_enemies(_)
RECURSIVE AbyssResponse_convert_abyss_items(_)
RECURSIVE Before(_, _)

\* The items xs[i..] of a list against the element type: the line errors of
\* every item are collected under the item's index; another exception ends it.
ValidateItems(ety, xs, i, acc, errs) ==
    IF i > Len(xs) THEN (IF errs = <<>> THEN Ok(acc) ELSE Invalid(errs))
    ELSE LET r == ValidateType(ety, xs[i]) IN
         CASE r.kind = "raised" -> r
           [] r.kind = "invalid" ->
                ValidateItems(ety, xs, i + 1, acc, errs \o Outer(r.errs, Idx(i - 1)))
           [] r.kind = "ok" -> ValidateItems(ety, xs, i + 1, Append(acc, r.val), errs)

ValidateType(ty, v) ==
    CASE ty = "int" -> ValidateInt(v)
      [] ty = "str" -> ValidateStr(v)
      [] ty = "bool" -> ValidateBool(v)
      [] ty = "datetime" ->
           IF v.t = "datetime" THEN Ok(v.v) ELSE Invalid(<<Err("datetime_type")>>)
      [] ty = "Optional[datetime]" ->
           IF v.t = "null" THEN Ok(<<>>)
           ELSE IF v.t = "datetime" THEN Ok(<<v.v>>)
           ELSE Invalid(<<Err("datetime_type")>>)
      [] ty = "Optional[List[int]]" ->
           IF v.t = "null" THEN Ok(<<>>)
           ELSE LET r == ValidateType("List[int]", v) IN
                IF r.kind = "ok" THEN Ok(<<r.val>>) ELSE r
      [] ty \in ListTypes ->
           \* a list of model instances, as a converter returns it, is taken as is
           IF v.t = "instances" THEN Ok(v.v)
           ELSE IF v.t = "list" THEN ValidateItems(ElemType(ty), v.v, 1, <<>>, <<>>)
           ELSE Invalid(<<Err("list_type")>>)
      [] ty \in ModelNames ->
           IF v.t = "obj" THEN ValidateModel(ty, v.v)
           ELSE Invalid(<<Err("model_type")>>)

\* One field of a model against the mapping ps: absent and required is a
\* "missing" line error, absent and optional is the default None (the
\* validators do not run on a default); present, the "before" validator runs
\* and then the type's validation, line errors going under the wire name.
ValidateField(f, ps) ==
    IF ~Has(ps, f.alias)
    THEN (IF f.req THEN Invalid(<<[loc |-> <<Name(f.alias)>>, type |-> "missing"]>>)
          ELSE Ok(<<>>))
    ELSE LET b == Before(f.before, Get(ps, f.alias)) IN
         CASE b.kind = "raised" -> b
           [] b.kind = "invalid" -> Invalid(Outer(b.errs, Name(f.alias)))
           [] b.kind = "ok" ->
                LET r == ValidateType(f.ty, b.val) IN
                IF r.kind = "invalid" THEN Invalid(Outer(r.errs, Name(f.alias))) ELSE r

\* The fields fs[i..] in declaration order: line errors are collected over all
\* the fields, any other exception leaves at once.
ValidateFieldsFrom(fs, ps, i, acc, errs) ==
    IF i > Len(fs) THEN (IF errs = <<>> THEN Ok(acc) ELSE Invalid(errs))
    ELSE LET r == ValidateField(fs[i], ps) IN
         CASE r.kind = "raised" -> r
           [] r.kind = "invalid" -> ValidateFieldsFrom(fs, ps, i + 1, acc, errs \o r.errs)
           [] r.kind = "ok" ->
                ValidateFieldsFrom(fs, ps, i + 1, acc @@ (fs[i].attr :> r.val), errs)

ValidateModel(model, ps) == ValidateFieldsFrom(Fields(model), ps, 1, <<>>, <<>>)

\* Model called with v as keywords: v has to be a mapping
Construct(model, v) ==
    IF v.t = "obj" THEN ValidateModel(model, v.v) ELSE Raised("TypeError")

\* v[item_id] for the i-th item_id of the iteration over v
Lookup(v, i) ==
    CASE v.t = "obj" -> Ok(Get(v.v, v.v[i].k))
      [] v.t = "list" ->
           LET e == v.v[i]
               n == IF e.t = "bool" THEN (IF e.v THEN 1 ELSE 0) ELSE e.v
           IN  IF e.t \notin {"int", "bool"} THEN Raised("TypeError")
               ELSE IF n >= 0 /\ n < Len(v.v) THEN Ok(v.v[n + 1])
               ELSE IF n < 0 /\ 0 - n <= Len(v.v) THEN Ok(v.v[Len(v.v) + n + 1])
               ELSE Raised("IndexError")
      [] v.t = "str" -> Raised("TypeError")

\* [Model(v[item_id] as keywords) for item_id in v], from the i-th item_id on
ConvertFrom(model, v, i, acc) ==
    IF i > Len(v.v) THEN Ok(PyInstances(acc))
    ELSE LET x == Lookup(v, i) IN
         IF x.kind # "ok" THEN x
         ELSE LET c == Construct(model, x.val) IN
              IF c.kind # "ok" THEN c
              ELSE ConvertFrom(model, v, i + 1, Append(acc, c.val))

ConvertKeyed(model, v) ==
    IF v.t \in {"obj", "list", "str"} THEN ConvertFrom(model, v, 1, <<>>)
    ELSE Raised("TypeError")

\* the order of the key strings used as keys of monsterList and items
KeyOrder == <<"1", "10", "2">>
KeyRank(key) == CHOOSE r \in 1..Len(KeyOrder) : KeyOrder[r] = key

RECURSIVE SortPairs(_)
SortPairs(ps) ==
    IF ps = <<>> THEN <<>>
    ELSE LET m == CHOOSE j \in 1..Len(ps) :
                     \A q \in 1..Len(ps) : KeyRank(ps[j].k) <= KeyRank(ps[q].k)
         IN  <<ps[m]>> \o SortPairs([q \in 1..(Len(ps) - 1) |->
                                       IF q < m THEN ps[q] ELSE ps[q + 1]])

ConvertEnemiesSortedByKey(v) ==
    IF v.t = "obj" THEN ConvertKeyed("AbyssEnemy", JObj(SortPairs(v.v)))
    ELSE ConvertKeyed("AbyssEnemy", v)

AbyssResponse_convert_enemies(v) == ConvertKeyed("AbyssEnemy", v)

AbyssResponse_convert_abyss_items(v) == ConvertKeyed("Abyss", v)

Before(name, v) ==
    CASE name = "" -> Ok(v)
      [] name = "Blessing._format_description" -> Blessing_format_description(v)
      [] name = "LeyLineDisorder._format_description" -> LeyLineDisorder_format_description(v)
      [] name = "AbyssData._format_open_time" -> AbyssData_format_open_time(v)
      [] name = "Abyss._format_close_time" -> Abyss_format_close_time(v)
      [] name = "AbyssEnemy._convert_icon_url" -> AbyssEnemy_convert_icon_url(v)
      [] name = "AbyssResponse._convert_enemies" -> AbyssResponse_convert_enemies(v)
      [] name = "AbyssResponse._convert_abyss_items" -> AbyssResponse_convert_abyss_items(v)

(***************************************************************************)
(* ChallengeTarget.formatted: str.format with one positional argument.     *)
(***************************************************************************)
\* the first index >= i of a brace in tpl, 0 when there is none
RECURSIVE NextBrace(_, _)
NextBrace(tpl, i) ==
    IF i > Len(tpl) THEN 0
    ELSE IF tpl[i] \in {"{", "}"} THEN i
    ELSE NextBrace(tpl, i + 1)

RECURSIVE FormatFrom(_, _, _, _, _)
\* numbering is "" until a field fixes it, then "auto" or "manual"; auto
\* counts the automatically numbered fields seen so far
FormatFrom(tpl, i, arg, acc, st) ==
    IF i > Len(tpl) THEN Ok(acc)
    ELSE IF tpl[i] = "{" THEN
        IF i < Len(tpl) /\ tpl[i + 1] = "{" THEN FormatFrom(tpl, i + 2, arg, acc \o <<"{">>, st)
        ELSE LET j == NextBrace(tpl, i + 1) IN
             IF j = 0 \/ tpl[j] = "{" THEN Raised("ValueError")
             ELSE LET name == SubSeq(tpl, i + 1, j - 1) IN
                  IF name = <<>> THEN
                      IF st.numbering = "manual" THEN Raised("ValueError")
                      ELSE IF st.auto > 0 THEN Raised("IndexError")
                      ELSE FormatFrom(tpl, j + 1, arg, acc \o arg,
                                      [numbering |-> "auto", auto |-> st.auto + 1])
                  ELSE IF IsDigits(name) THEN
                      IF st.numbering = "auto" THEN Raised("ValueError")
                      ELSE IF DigitsValue(name) > 0 THEN Raised("IndexError")
                      ELSE FormatFrom(tpl, j + 1, arg, acc \o arg,
                                      [numbering |-> "manual", auto |-> st.auto])
                  ELSE Raised("KeyError")
    ELSE IF tpl[i] = "}" THEN
        IF i < Len(tpl) /\ tpl[i + 1] = "}" THEN FormatFrom(tpl, i + 2, arg, acc \o <<"}">>, st)
        ELSE Raised("ValueError")
    ELSE FormatFrom(tpl, i + 1, arg, acc \o <<tpl[i]>>, st)

\* template.format(arg)
StrFormat(tpl, arg) == FormatFrom(tpl, 1, arg, <<>>, [numbering |-> "", auto |-> 0])

FormattedJoinsWithComma(ct) ==
    StrFormat(ct.type, Join(<<",">>, [j \in 1..Len(ct.values) |-> IntStr(ct.values[j])]))

ChallengeTarget_formatted(ct) ==
    StrFormat(ct.type, Join(<<"/">>, [j \in 1..Len(ct.values) |-> IntStr(ct.values[j])]))

\* what the property getter leaves in self: it assigns nothing
FormattedClearsValues(ct) == [ct EXCEPT !.values = <<>>]

ChallengeTarget_formatted_self(ct) == ct

(***************************************************************************)
(* The inputs: wire payloads built from a well-formed response.            *)
(***************************************************************************)
TargetObj(ty, vals) ==
    JObj(<<P("type", JStr(ty)), P("values", JList([j \in 1..Len(vals) |-> JInt(vals[j])]))>>)

ChamberObj(id, target) ==
    JObj(<<P("id", JInt(id)), P("challengeTarget", target), P("monsterLevel", JInt(72)),
           P("firstMonsterList", JList(<<JInt(3), JInt(4)>>)),
           P("secondMonsterList", JList(<<JInt(5)>>))>>)

DisorderObj(desc) ==
    JObj(<<P("description", JStr(desc)), P("levelConfigName", JStr(<<"c">>)),
           P("visible", JBool(TRUE))>>)

BlessingObj(desc) ==
    JObj(<<P("description", JStr(desc)), P("levelConfigName", JStr(<<"b">>)),
           P("visible", JBool(FALSE))>>)

FloorObj(id, chambers, disorders) ==
    JObj(<<P("id", JInt(id)), P("chamberList", JList(chambers)),
           P("leyLineDisorder", JList(disorders)),
           P("overrideMonsterLevel", JInt(0)), P("teamNum", JInt(2))>>)

DataObj(open, floors) ==
    JObj(<<P("openTime", open), P("floorList", JList(floors))>>)

ItemObj(id, close, blessing, entrance, schedule) ==
    JObj(<<P("id", JInt(id)), P("closeTime", close), P("blessing", blessing),
           P("entrance", entrance), P("schedule", schedule)>>)

EnemyObj(icon, id) ==
    JObj(<<P("icon", icon), P("id", JInt(id)), P("link", JBool(TRUE)),
           P("name", JStr(<<"n">>))>>)

ResponseObj(monsters, items) == JObj(<<P("monsterList", monsters), P("items", items)>>)

RECURSIVE OmitAt(_, _)
\* v without the key (or the list element) at the path
OmitAt(v, path) ==
    LET h == path[1]
        at == IF v.t = "obj" THEN CHOOSE j \in 1..Len(v.v) : v.v[j].k = h.n ELSE h.i + 1
    IN  IF Len(path) = 1
        THEN [v EXCEPT !.v = [q \in 1..(Len(v.v) - 1) |-> IF q < at THEN v.v[q] ELSE v.v[q + 1]]]
        ELSE IF v.t = "obj"
        THEN [v EXCEPT !.v[at].v = OmitAt(v.v[at].v, Tail(path))]
        ELSE [v EXCEPT !.v[at] = OmitAt(v.v[at], Tail(path))]

RECURSIVE SetAt(_, _, _)
\* v with the value at the path replaced by new
SetAt(v, path, new) ==
    IF path = <<>> THEN new
    ELSE LET h == path[1]
             at == IF v.t = "obj" THEN CHOOSE j \in 1..Len(v.v) : v.v[j].k = h.n ELSE h.i + 1
         IN  IF v.t = "obj"
             THEN [v EXCEPT !.v[at].v = SetAt(v.v[at].v, Tail(path), new)]
             ELSE [v EXCEPT !.v[at] = SetAt(v.v[at], Tail(path), new)]

RECURSIVE Paths(_)
\* the paths of every key and every list element inside v
Paths(v) ==
    IF v.t = "obj"
    THEN UNION {{<<Name(v.v[j].k)>>} \cup {<<Name(v.v[j].k)>> \o p : p \in Paths(v.v[j].v)}
                : j \in 1..Len(v.v)}
    ELSE IF v.t = "list"
    THEN UNION {{<<Idx(j - 1)>>} \cup {<<Idx(j - 1)>> \o p : p \in Paths(v.v[j])}
                : j \in 1..Len(v.v)}
    ELSE {}

SeqsUpTo(A, n) == UNION {[1..m -> A] : m \in 0..n}

RECURSIVE Flatten(_)
Flatten(ss) == IF ss = <<>> THEN <<>> ELSE ss[1] \o Flatten(Tail(ss))

PlainTemplate == <<"i", "n", " ", "{", "0", "}", "s">>
PlainTarget == TargetObj(PlainTemplate, <<90>>)
PlainIcon == JStr(<<"U", "I", "_", "a">>)
PlainDesc == <<"<", "b", ">", "x", "<", "/", "b", ">", "&", "a", "m", "p", ";">>

BaseFloor(id) ==
    FloorObj(id, <<ChamberObj(1, PlainTarget)>>, <<DisorderObj(PlainDesc)>>)

BaseItem ==
    ItemObj(1, JInt(1709258399), BlessingObj(PlainDesc),
            DataObj(JInt(1706580000), <<BaseFloor(9), BaseFloor(10)>>),
            DataObj(JInt(0), <<BaseFloor(11)>>))

BasePayload ==
    ResponseObj(JObj(<<P("1", EnemyObj(PlainIcon, 7))>>), JObj(<<P("1", BaseItem)>>))

\* a small payload around one challenge target, one blessing and one disorder
SlimPayload(target, bdesc, ddesc) ==
    ResponseObj(JObj(<<>>),
                JObj(<<P("1", ItemObj(1, JInt(0), BlessingObj(bdesc),
                                      DataObj(JNull, <<FloorObj(9, <<ChamberObj(1, target)>>,
                                                                <<DisorderObj(ddesc)>>)>>),
                                      DataObj(JNull, <<>>)))>>))

\* values of every wire shape, put in the place of any key or element
ShapeVals ==
    {JInt(0), JInt(5), JStr(<<>>), JStr(<<"x">>), JStr(<<"5">>), JBool(TRUE), JNull,
     JList(<<>>), JList(<<JInt(0)>>), JList(<<JStr(<<"x">>)>>), JObj(<<>>)}

FamOmit == {OmitAt(BasePayload, p) : p \in Paths(BasePayload)}

FamShape == {SetAt(BasePayload, p, w) : p \in Paths(BasePayload), w \in ShapeVals}

Keys == {"1", "2", "10"}

KeySeqs == {ks \in SeqsUpTo(Keys, MaxEntries) :
              \A a, b \in 1..Len(ks) : a # b => ks[a] # ks[b]}

Keyed(ks, es) == JObj([j \in 1..Len(ks) |-> P(ks[j], es[j])])

EnemyCands ==
    {EnemyObj(PlainIcon, 2), EnemyObj(JStr(MonsterIcon), 1),
     OmitAt(EnemyObj(PlainIcon, 3), <<Name("name")>>),
     EnemyObj(JInt(5), 4), JInt(0)}

FamEnemies ==
    UNION {{ResponseObj(Keyed(ks, es), JObj(<<>>)) : es \in [1..Len(ks) -> EnemyCands]} :
             ks \in KeySeqs}

ItemCands ==
    {BaseItem,
     SetAt(SetAt(BaseItem, <<Name("id")>>, JInt(2)), <<Name("closeTime")>>, JInt(86400)),
     OmitAt(BaseItem, <<Name("id")>>),
     OmitAt(BaseItem, <<Name("entrance"), Name("floorList"), Idx(1), Name("chamberList")>>),
     OmitAt(BaseItem, <<Name("schedule"), Name("floorList"), Idx(0), Name("chamberList")>>),
     SetAt(BaseItem, <<Name("closeTime")>>, JStr(<<"x">>))}

FamItems ==
    UNION {{ResponseObj(JObj(<<P("1", EnemyObj(PlainIcon, 7))>>), Keyed(ks, es)) :
                es \in [1..Len(ks) -> ItemCands]} : ks \in KeySeqs}

IconChunks == {<<"U", "I", "_">>, <<"M", "o", "n", "s", "t", "e", "r", "I", "c", "o", "n">>, <<"M", "o", "n", "s", "t", "e", "r">>, <<"I", "c", "o", "n">>, <<"_", "a">>}

IconStrs == {Flatten(cs) : cs \in SeqsUpTo(IconChunks, MaxChunks)}

FamIcons ==
    {ResponseObj(JObj(<<P("1", EnemyObj(JStr(r), 7))>>), JObj(<<>>)) : r \in IconStrs}

TimeVals == {JInt(0), JInt(1), JInt(86399), JInt(86400), JInt(1709258399)}

FamTimes ==
    {SetAt(SetAt(BasePayload, <<Name("items"), Name("1"), Name("closeTime")>>, c),
           <<Name("items"), Name("1"), Name("entrance"), Name("openTime")>>, o) :
        c \in TimeVals, o \in TimeVals \cup {JNull}}
    \cup
    {OmitAt(SetAt(BasePayload, <<Name("items"), Name("1"), Name("closeTime")>>, c),
            <<Name("items"), Name("1"), Name("entrance"), Name("openTime")>>) :
        c \in TimeVals}

TemplateChars == {"a", "{", "}", "0"}
ValueSet == {90, -3}

\* every template with no, one and two values; two templates with every
\* sequence of values
FamTargets ==
    {SlimPayload(TargetObj(tpl, vals), <<>>, <<>>) :
        tpl \in SeqsUpTo(TemplateChars, MaxTplLen), vals \in {<<>>, <<90>>, <<90, -3>>}}
    \cup
    {SlimPayload(TargetObj(tpl, vals), <<>>, <<>>) :
        tpl \in {<<"{", "0", "}">>, <<"a", "{", "}", "a">>}, vals \in SeqsUpTo(ValueSet, MaxValues)}

DescChars == {"<", ">", "b", "&"}

FamDescs ==
    {SlimPayload(PlainTarget, d, PlainDesc) : d \in SeqsUpTo(DescChars, MaxDescLen)}
    \cup {SlimPayload(PlainTarget, PlainDesc, d) : d \in SeqsUpTo(DescChars, MaxDescLen)}

Payloads ==
    FamOmit \cup FamShape \cup FamEnemies \cup FamItems \cup FamIcons \cup FamTimes
    \cup FamTargets \cup FamDescs

(***************************************************************************)
(* The parse of a payload by AbyssResponse, field by field, and what a     *)
(* caller can do with the object it returns.                               *)
(***************************************************************************)
NoOutcome == [kind |-> "none", val |-> <<>>, errs |-> <<>>, exc |-> ""]

NoAccess == [i |-> 0, side |-> "", j |-> 0, k |-> 0, self |-> [type |-> <<>>, values |-> <<>>]]

Init ==
    /\ payload \in Payloads
    /\ pc = "enemies"
    /\ attrs = <<>>
    /\ errors = <<>>
    /\ result = NoOutcome
    /\ obj = <<>>
    /\ formatted = NoOutcome
    /\ accessed = NoAccess
    /\ last = "init"

\* one field of AbyssResponse; a line error is kept and the next field is
\* validated, any other exception ends the parse
TopField(i, nextpc) ==
    LET r == ValidateField(AbyssResponseFields[i], payload.v) IN
    /\ pc' = IF r.kind = "raised" THEN "done" ELSE nextpc
    /\ result' = IF r.kind = "raised" THEN r ELSE result
    /\ errors' = IF r.kind = "invalid" THEN errors \o r.errs ELSE errors
    /\ attrs' = IF r.kind = "ok" THEN attrs @@ (AbyssResponseFields[i].attr :> r.val) ELSE attrs
    /\ last' = "parse"
    /\ UNCHANGED <<payload, obj, formatted, accessed>>

ValidateEnemies == pc = "enemies" /\ TopField(1, "abyss_items")

ValidateAbyssItems == pc = "abyss_items" /\ TopField(2, "return")

\* the end of the parse: the object, or the ValidationError of the collected errors
Return ==
    /\ pc = "return"
    /\ pc' = "done"
    /\ result' = IF errors = <<>> THEN Ok(attrs) ELSE Invalid(errors)
    /\ obj' = IF errors = <<>> THEN attrs ELSE obj
    /\ last' = "parse"
    /\ UNCHANGED <<payload, attrs, errors, formatted, accessed>>

Sides == {"abyss_corridor", "abyssal_moon_spire"}

\* the caller reads chamber.challenge_target.formatted; accessed records which
\* target was read and what it held before the read
AccessFormatted ==
    /\ pc = "done" /\ result.kind = "ok"
    /\ \E i \in 1..Len(obj.abyss_items), side \in Sides :
         \E j \in 1..Len(obj.abyss_items[i][side].floors) :
            \E k \in 1..Len(obj.abyss_items[i][side].floors[j].chambers) :
               LET ct == obj.abyss_items[i][side].floors[j].chambers[k].challenge_target IN
               /\ formatted' = ChallengeTarget_formatted(ct)
               /\ accessed' = [i |-> i, side |-> side, j |-> j, k |-> k, self |-> ct]
               /\ obj' = [obj EXCEPT
                            !.abyss_items[i][side].floors[j].chambers[k].challenge_target =
                                ChallengeTarget_formatted_self(ct)]
    /\ last' = "formatted"
    /\ UNCHANGED <<payload, pc, attrs, errors, result>>

\* the models are plain BaseModel classes (not frozen): a caller can assign
\* to an attribute; one assignment is followed, and the run ends with it
SetAttr(attr) ==
    /\ pc = "done" /\ result.kind = "ok"
    /\ obj' = [obj EXCEPT ![attr] = <<>>]
    /\ pc' = "assigned"
    /\ last' = "setattr"
    /\ UNCHANGED <<payload, attrs, errors, result, formatted, accessed>>

Next ==
    \/ ValidateEnemies
    \/ ValidateAbyssItems
    \/ Return
    \/ AccessFormatted
    \/ \E attr \in {"enemies", "abyss_items"} : SetAttr(attr)

Spec == Init /\ [][Next]_vars

(***************************************************************************)
(* Properties.                                                             *)
(***************************************************************************)
Done == pc = "done"
Parsed == pc = "done" /\ result.kind = "ok"

\* the wire value under a key of the payload, when it is a keyed mapping
IsMapping(key) == Has(payload.v, key) /\ Get(payload.v, key).t = "obj"
Mapping(key) == Get(payload.v, key).v

\* the same mapping under other key strings: every key moved to the next one
NextKey(key) == CASE key = "1" -> "2" [] key = "2" -> "10" [] key = "10" -> "1"
Rekeyed(ps) == [j \in 1..Len(ps) |-> P(NextKey(ps[j].k), ps[j].v)]

\* C3: for a valid input, enemies and abyss_items hold one element per key of
\* monsterList and items, the i-th element being the parse of the value of the
\* i-th key in the mapping's order, whatever the key strings are.
C3_FlattenKeepsOrder ==
    Parsed =>
        /\ IsMapping("monsterList") =>
             /\ Len(result.val.enemies) = Len(Mapping("monsterList"))
             /\ \A i \in 1..Len(Mapping("monsterList")) :
                   LET c == Construct("AbyssEnemy", Mapping("monsterList")[i].v) IN
                   c.kind = "ok" /\ result.val.enemies[i] = c.val
             /\ LET re == ValidateField(AbyssResponseFields[1],
                                        <<P("monsterList", JObj(Rekeyed(Mapping("monsterList"))))>>)
                IN  re.kind = "ok" /\ re.val = result.val.enemies
        /\ IsMapping("items") =>
             /\ Len(result.val.abyss_items) = Len(Mapping("items"))
             /\ \A i \in 1..Len(Mapping("items")) :
                   LET c == Construct("Abyss", Mapping("items")[i].v) IN
                   c.kind = "ok" /\ result.val.abyss_items[i] = c.val
             /\ LET re == ValidateField(AbyssResponseFields[2],
                                        <<P("items", JObj(Rekeyed(Mapping("items"))))>>)
                IN  re.kind = "ok" /\ re.val = result.val.abyss_items

\* two enemies under keys that are not in sorted order and differ from the ids
C3_Witness ==
    /\ Parsed /\ IsMapping("monsterList")
    /\ Len(Mapping("monsterList")) = 2
    /\ Mapping("monsterList")[1].k = "2" /\ Mapping("monsterList")[2].k = "1"
    /\ result.val.enemies[1].id = 1 /\ result.val.enemies[2].id = 2

\* the wire value of a field of the i-th items entry, JNull standing for absent
ItemWire(i, path) ==
    LET it == Mapping("items")[i].v IN
    IF path \in Paths(it) THEN
        LET RECURSIVE At(_, _)
            At(v, p) == IF p = <<>> THEN v
                        ELSE At(IF v.t = "obj" THEN Get(v.v, p[1].n) ELSE v.v[p[1].i + 1], Tail(p))
        IN  At(it, path)
    ELSE JNull
ItemHas(i, path) == path \in Paths(Mapping("items")[i].v)

WireSide(side) == IF side = "abyss_corridor" THEN "entrance" ELSE "schedule"

Epoch == [day |-> 0, sec |-> 0]

\* C4: openTime absent or 0 parses to unset, closeTime 0 parses to the epoch
\* date-time; a non-zero openTime t and a closeTime t parse to the same
\* date-time.
C4_TimestampZero ==
    (Parsed /\ IsMapping("items")) =>
        \A i \in 1..Len(Mapping("items")) :
            LET o == result.val.abyss_items[i]
                c == ItemWire(i, <<Name("closeTime")>>)
            IN  /\ c = JInt(0) => o.close_time = Epoch
                /\ c.t = "int" => o.close_time = FromTimestamp(c.v)
                /\ \A side \in Sides :
                      LET path == <<Name(WireSide(side)), Name("openTime")>>
                          w == ItemWire(i, path)
                      IN  /\ ~ItemHas(i, path) => o[side].open_time = <<>>
                          /\ w = JInt(0) => o[side].open_time = <<>>
                          /\ (w.t = "int" /\ w.v # 0) => o[side].open_time = <<FromTimestamp(w.v)>>
                          /\ (w.t = "int" /\ w.v # 0 /\ w = c) => o[side].open_time = <<o.close_time>>

\* one entry with closeTime 0 and openTime 0, another side without openTime
C4_Witness ==
    /\ Parsed /\ IsMapping("items") /\ Len(Mapping("items")) = 1
    /\ ItemWire(1, <<Name("closeTime")>>) = JInt(0)
    /\ ItemWire(1, <<Name("entrance"), Name("openTime")>>) = JInt(0)
    /\ ItemHas(1, <<Name("entrance"), Name("openTime")>>)
    /\ result.val.abyss_items[1].abyss_corridor.open_time = <<>>
    /\ result.val.abyss_items[1].close_time = Epoch

\* needle occurs in s at some position
Occurs(needle, s) ==
    \E q \in 1..Len(s) : q + Len(needle) - 1 <= Len(s) /\ SubSeq(s, q, q + Len(needle) - 1) = needle

ExpectedIcon(r) ==
    IF Occurs(MonsterIcon, r) THEN UrlBase \o MonsterDir \o <<"/">> \o r \o PngSuffix
    ELSE UrlBase \o <<"/">> \o r \o PngSuffix

\* C5: the icon of a parsed enemy is the monster URL of the raw string when
\* the raw string contains MonsterIcon anywhere, the plain URL otherwise, and
\* no raw string makes the transform fail.
C5_IconUrl ==
    /\ (Parsed /\ IsMapping("monsterList")) =>
          \A i \in 1..Len(Mapping("monsterList")) :
              LET e == Mapping("monsterList")[i].v IN
              (Has(e.v, "icon") /\ Get(e.v, "icon").t = "str") =>
                  result.val.enemies[i].icon = ExpectedIcon(Get(e.v, "icon").v)
    /\ (Done /\ payload \in FamIcons) => result.kind = "ok"

\* a raw name with MonsterIcon past its start
C5_Witness ==
    /\ Parsed /\ payload \in FamIcons
    /\ LET r == Get(Mapping("monsterList")[1].v.v, "icon").v IN
       /\ Occurs(MonsterIcon, r) /\ SubSeq(r, 1, 2) = <<"U", "I">>
       /\ result.val.enemies[1].icon = UrlBase \o MonsterDir \o <<"/">> \o r \o PngSuffix

Placeholders == {<<"{", "}">>, <<"{", "0", "}">>}

\* the places (start, length) at which a placeholder stands in tpl
PlaceholderAt(tpl) ==
    {pl \in (1..Len(tpl)) \X {2, 3} :
        pl[1] + pl[2] - 1 <= Len(tpl) /\ SubSeq(tpl, pl[1], pl[1] + pl[2] - 1) \in Placeholders}

HasBrace(s) == \E q \in 1..Len(s) : s[q] \in {"{", "}"}

\* values rendered in decimal and joined by "/"
Slashed(values) == Join(<<"/">>, [j \in 1..Len(values) |-> IntStr(values[j])])

\* the template with the text at the place replaced by the joined values
Substituted(tpl, pl, values) ==
    SubSeq(tpl, 1, pl[1] - 1) \o Slashed(values) \o SubSeq(tpl, pl[1] + pl[2], Len(tpl))

AccessedNow ==
    obj.abyss_items[accessed.i][accessed.side].floors[accessed.j].chambers[accessed.k].challenge_target

RECURSIVE ScanFields(_, _, _)
\* the replacement fields of a format string, by the grammar of format
\* strings: doubled braces are literal text, a single "{" opens a field that
\* runs to the next "}"; ok is FALSE for a string the grammar rejects
ScanFields(tpl, i, places) ==
    IF i > Len(tpl) THEN [ok |-> TRUE, places |-> places]
    ELSE IF tpl[i] = "{" THEN
        IF i < Len(tpl) /\ tpl[i + 1] = "{" THEN ScanFields(tpl, i + 2, places)
        ELSE LET j == NextBrace(tpl, i + 1) IN
             IF j = 0 \/ tpl[j] = "{" THEN [ok |-> FALSE, places |-> {}]
             ELSE ScanFields(tpl, j + 1, places \cup {<<i, j - i + 1>>})
    ELSE IF tpl[i] = "}" THEN
        IF i < Len(tpl) /\ tpl[i + 1] = "}" THEN ScanFields(tpl, i + 2, places)
        ELSE [ok |-> FALSE, places |-> {}]
    ELSE ScanFields(tpl, i + 1, places)

\* C6 as stated: with exactly one placeholder in type and values non-empty,
\* formatted is the template with the placeholder replaced by the values
\* joined by "/", the rest unchanged, and the access changes neither type nor
\* values.
C6_FormattedAsStated ==
    LET sc == ScanFields(accessed.self.type, 1, {}) IN
    (last = "formatted" /\ sc.ok /\ Cardinality(sc.places) = 1
        /\ accessed.self.values # <<>>) =>
        /\ formatted.kind = "ok"
        /\ \A pl \in sc.places :
              formatted.val = Substituted(accessed.self.type, pl, accessed.self.values)
        /\ AccessedNow = accessed.self

\* C6 as amended: the same, for a template whose only braces are those of the
\* one placeholder.
C6_FormattedPlainTemplate ==
    (last = "formatted" /\ Cardinality(PlaceholderAt(accessed.self.type)) = 1
        /\ accessed.self.values # <<>>
        /\ \A pl \in PlaceholderAt(accessed.self.type) :
              /\ ~HasBrace(SubSeq(accessed.self.type, 1, pl[1] - 1))
              /\ ~HasBrace(SubSeq(accessed.self.type, pl[1] + pl[2], Len(accessed.self.type)))) =>
        /\ formatted.kind = "ok"
        /\ \A pl \in PlaceholderAt(accessed.self.type) :
              formatted.val = Substituted(accessed.self.type, pl, accessed.self.values)
        /\ AccessedNow = accessed.self

\* a template with text on both sides of its placeholder, and two values
C6_Witness ==
    /\ last = "formatted"
    /\ accessed.self.type = <<"a", "{", "}", "a">>
    /\ accessed.self.values = <<90, -3>>
    /\ formatted.kind = "ok"
    /\ formatted.val = <<"a", "9", "0", "/", "-", "3", "a">>

\* C8 as stated: once an entity is constructed, no operation changes a field.
C8_NeverChanges == [][pc = "done" => obj' = obj]_vars

\* C8 as amended: the operation the module defines on an entity, the read of
\* formatted, changes no field of the object.
C8_FormattedChangesNothing == [][last' = "formatted" => obj' = obj]_vars

\* formatted has been read on a target with values
C8_Witness ==
    /\ last = "formatted" /\ formatted.kind = "ok"
    /\ accessed.self.values # <<>> /\ AccessedNow.values = accessed.self.values

NoTag(s) == ~\E a, b \in 1..Len(s) : a < b /\ s[a] = "<" /\ s[b] = ">"

BlessingDescPath == <<Name("items"), Name("1"), Name("blessing"), Name("description")>>
DisorderDescPath ==
    <<Name("items"), Name("1"), Name("entrance"), Name("floorList"), Idx(0),
      Name("leyLineDisorder"), Idx(0), Name("description")>>

\* the well-formed response with a description that is no string
NonStringDescriptions ==
    {SetAt(BasePayload, path, w) :
        path \in {BlessingDescPath, DisorderDescPath}, w \in {x \in ShapeVals : x.t # "str"}}

W(nm, kd, ch) == [name |-> nm, kind |-> kd, child |-> ch]

WireSchema(model) ==
    CASE model = "AbyssResponse" ->
           <<W("monsterList", "map", "AbyssEnemy"), W("items", "map", "Abyss")>>
      [] model = "AbyssEnemy" ->
           <<W("icon", "str", ""), W("id", "int", ""), W("link", "bool", ""), W("name", "str", "")>>
      [] model = "Abyss" ->
           <<W("id", "int", ""), W("closeTime", "int", ""), W("blessing", "one", "Blessing"),
             W("entrance", "one", "AbyssData"), W("schedule", "one", "AbyssData")>>
      [] model \in {"Blessing", "LeyLineDisorder"} ->
           <<W("description", "str", ""), W("levelConfigName", "str", ""), W("visible", "bool", "")>>
      [] model = "AbyssData" ->
           <<W("openTime", "int", ""), W("floorList", "many", "Floor")>>
      [] model = "Floor" ->
           <<W("id", "int", ""), W("chamberList", "many", "Chamber"),
             W("leyLineDisorder", "many", "LeyLineDisorder"),
             W("overrideMonsterLevel", "int", ""), W("teamNum", "int", "")>>
      [] model = "Chamber" ->
           <<W("id", "int", ""), W("challengeTarget", "one", "ChallengeTarget"),
             W("monsterLevel", "int", ""), W("firstMonsterList", "ints", ""),
             W("secondMonsterList", "ints", "")>>
      [] model = "ChallengeTarget" ->
           <<W("type", "str", ""), W("values", "ints", "")>>

OptionalNames == {"secondMonsterList", "openTime"}

RECURSIVE Lacks(_, _)
\* some entity of the wire object v (of kind model) lacks a wire field that
\* is not one of the two optional ones
Lacks(model, v) ==
    \E q \in 1..Len(WireSchema(model)) :
        LET f == WireSchema(model)[q] IN
        IF ~Has(v.v, f.name) THEN f.name \notin OptionalNames
        ELSE LET x == Get(v.v, f.name) IN
             CASE f.kind = "one" -> x.t = "obj" /\ Lacks(f.child, x)
               [] f.kind = "many" ->
                    x.t = "list" /\ \E e \in 1..Len(x.v) : x.v[e].t = "obj" /\ Lacks(f.child, x.v[e])
               [] f.kind = "map" ->
                    x.t = "obj" /\ \E e \in 1..Len(x.v) : x.v[e].v.t = "obj" /\ Lacks(f.child, x.v[e].v)
               [] OTHER -> FALSE

RECURSIVE Misshaped(_, _)
\* some present field of some entity of v holds a value of another shape
\* than the schema's (null counts as absent for an optional field)
Misshaped(model, v) ==
    \E q \in 1..Len(WireSchema(model)) :
        LET f == WireSchema(model)[q] IN
        /\ Has(v.v, f.name)
        /\ LET x == Get(v.v, f.name) IN
           /\ ~(f.name \in OptionalNames /\ x.t = "null")
           /\ CASE f.kind \in {"int", "str", "bool"} -> x.t # f.kind
                [] f.kind = "ints" -> x.t # "list" \/ \E e \in 1..Len(x.v) : x.v[e].t # "int"
                [] f.kind = "one" -> x.t # "obj" \/ Misshaped(f.child, x)
                [] f.kind = "many" ->
                     x.t # "list"
                     \/ \E e \in 1..Len(x.v) : x.v[e].t # "obj" \/ Misshaped(f.child, x.v[e])
                [] f.kind = "map" ->
                     x.t # "obj"
                     \/ \E e \in 1..Len(x.v) : x.v[e].v.t # "obj" \/ Misshaped(f.child, x.v[e].v)

\* some entry of monsterList or items fails its own parse
EntryFails ==
    \/ IsMapping("monsterList")
       /\ \E e \in 1..Len(Mapping("monsterList")) :
             Construct("AbyssEnemy", Mapping("monsterList")[e].v).kind # "ok"
    \/ IsMapping("items")
       /\ \E e \in 1..Len(Mapping("items")) :
             Construct("Abyss", Mapping("items")[e].v).kind # "ok"

\* C1: a missing required field, a field of the wrong shape or an entry that
\* fails its own parse makes the whole parse fail, and a parse that succeeds
\* has skipped no entry.
C1_FailWhole ==
    /\ (Done /\ (Lacks("AbyssResponse", payload) \/ Misshaped("AbyssResponse", payload)
                 \/ EntryFails)) => result.kind # "ok"
    /\ (Parsed /\ IsMapping("monsterList")) =>
          Len(result.val.enemies) = Len(Mapping("monsterList"))
    /\ (Parsed /\ IsMapping("items")) =>
          Len(result.val.abyss_items) = Len(Mapping("items"))

\* C2: a parse ends in an AbyssResponse or in a validation error, and a
\* present field of an incompatible shape ends it in a validation error.
C2_TwoOutcomes ==
    Done => /\ result.kind \in {"ok", "invalid"}
            /\ Misshaped("AbyssResponse", payload) => result.kind = "invalid"

\* the floors without chamberList: <<entry, side, index in floorList>>
LackingFloors ==
    IF ~IsMapping("items") THEN {}
    ELSE UNION {UNION {
        LET it == Mapping("items")[i].v IN
        IF it.t = "obj" /\ Has(it.v, s) /\ Get(it.v, s).t = "obj"
           /\ Has(Get(it.v, s).v, "floorList") /\ Get(Get(it.v, s).v, "floorList").t = "list"
        THEN LET fl == Get(Get(it.v, s).v, "floorList").v IN
             {<<i, s, j>> : j \in {q \in 1..Len(fl) : fl[q].t = "obj" /\ ~Has(fl[q].v, "chamberList")}}
        ELSE {}
        : s \in {"entrance", "schedule"}} : i \in 1..Len(Mapping("items"))}

\* C7 as stated: a floor without chamberList makes the parse fail with a
\* missing-field error whose path includes the floor's index.  Stated for the
\* parses that no exception other than a validation error ends, so that a
\* violation does not rest on the exceptions of C2.
C7_MissingChamberListAsStated ==
    (Done /\ result.kind # "raised") => \A lf \in LackingFloors :
        /\ result.kind = "invalid"
        /\ \E e \in 1..Len(result.errs) :
              /\ result.errs[e].type = "missing"
              /\ result.errs[e].loc[Len(result.errs[e].loc)] = Name("chamberList")
              /\ \E q \in 1..Len(result.errs[e].loc) : result.errs[e].loc[q] = Idx(lf[3] - 1)

\* C7 as amended: a floor without chamberList makes the parse fail; when it
\* fails with a validation error and every entry of items ahead of the
\* floor's entry parses, the errors hold the missing-field error at
\* items, the side, floorList, the floor's index, chamberList.
C7_MissingChamberList ==
    Done => \A lf \in LackingFloors :
        /\ result.kind # "ok"
        /\ (result.kind = "invalid"
            /\ \A e \in 1..(lf[1] - 1) : Construct("Abyss", Mapping("items")[e].v).kind = "ok") =>
              \E e \in 1..Len(result.errs) :
                  result.errs[e] = [loc |-> <<Name("items"), Name(lf[2]), Name("floorList"),
                                              Idx(lf[3] - 1), Name("chamberList")>>,
                                    type |-> "missing"]

\* the second floor of entrance has no chamberList, in the second entry
C7_Witness ==
    /\ Done /\ result.kind = "invalid"
    /\ <<2, "entrance", 2>> \in LackingFloors
    /\ \E e \in 1..Len(result.errs) :
          result.errs[e].loc = <<Name("items"), Name("entrance"), Name("floorList"),
                                 Idx(1), Name("chamberList")>>

SecondWavePath ==
    <<Name("items"), Name("1"), Name("entrance"), Name("floorList"), Idx(0),
      Name("chamberList"), Idx(0), Name("secondMonsterList")>>

\* the well-formed response without one of its optional fields
OnlyOptionalOmitted ==
    {OmitAt(BasePayload, p) :
        p \in {q \in Paths(BasePayload) : q[Len(q)].n \in OptionalNames}}

\* C10: a chamber without secondMonsterList and an entrance or schedule
\* without openTime parse, with the attribute unset; a parse that succeeds
\* lacks no other wire field of any entity.
C10_OptionalFields ==
    /\ Parsed => ~Lacks("AbyssResponse", payload)
    /\ (Done /\ payload \in OnlyOptionalOmitted) => result.kind = "ok"
    /\ (Parsed /\ IsMapping("items")) =>
          \A i \in 1..Len(Mapping("items")) : \A side \in Sides :
              LET o == result.val.abyss_items[i][side] IN
              /\ ~ItemHas(i, <<Name(WireSide(side)), Name("openTime")>>) => o.open_time = <<>>
              /\ \A j \in 1..Len(o.floors) : \A k \in 1..Len(o.floors[j].chambers) :
                    ~ItemHas(i, <<Name(WireSide(side)), Name("floorList"), Idx(j - 1),
                                  Name("chamberList"), Idx(k - 1), Name("secondMonsterList")>>)
                        => o.floors[j].chambers[k].wave_two_enemies = <<>>

\* the well-formed response without the first chamber's secondMonsterList
C10_Witness ==
    /\ Parsed /\ payload = OmitAt(BasePayload, SecondWavePath)
    /\ result.val.abyss_items[1].abyss_corridor.floors[1].chambers[1].wave_two_enemies = <<>>
    /\ result.val.abyss_items[1].abyss_corridor.floors[2].chambers[1].wave_two_enemies = <<<<5>>>>

====
